---- MODULE Spec2Model ----
(***************************************************************************)
(* Model of the Perundhu OCR service (ocr-service/main.py): the Tamil      *)
(* correction table and correct_tamil_text, the result normaliser          *)
(* parse_ocr_result, and the three HTTP handlers (/health, /extract,       *)
(* /extract-url) running as coroutines on one event loop.                  *)
(*                                                                         *)
(* A Python str is modelled as the sequence of its Unicode code points, so *)
(* "@tr" is <<64, 116, 114>> and the newline character is <<10>>.          *)
(***************************************************************************)
EXTENDS Integers, Sequences, FiniteSets, TLC

VARIABLES
    text,         \* correct_tamil_text: the argument of the current call
    corrected,    \* correct_tamil_text: the value the last call returned
    cpc,          \* correct_tamil_text: "call" (about to run) or "returned"
    pass,         \* 1: first call on the raw string, 2: call on its own output
    result,       \* parse_ocr_result: its argument, the engine's output
    out,          \* parse_ocr_result: what the call returned or raised
    ppc,          \* parse_ocr_result: "call" or "returned"
    table_writes, \* the assignments made to the dict TAMIL_CORRECTIONS since import
    ocr,          \* the module global ocr, the shared engine handle
    req           \* the HTTP requests in flight: one coroutine each

vars == <<text, corrected, cpc, pass, result, out, ppc, table_writes, ocr, req>>

(***************************************************************************)
(* TAMIL_CORRECTIONS, lines 48-107: a dict literal, iterated by .items()   *)
(* in insertion order.  No key occurs twice, so the order of the rules is  *)
(* the order of the lines.                                                 *)
(***************************************************************************)
TAMIL_CORRECTIONS == <<
    \* line 50: 'தம்ழ்நாடு' -> 'தமிழ்நாடு'
    [wrong   |-> <<2980, 2990, 3021, 2996, 3021, 2984, 3006, 2975, 3009>>,
     correct |-> <<2980, 2990, 3007, 2996, 3021, 2984, 3006, 2975, 3009>>],
    \* line 51: 'தம்ழ்' -> 'தமிழ்'
    [wrong   |-> <<2980, 2990, 3021, 2996, 3021>>,
     correct |-> <<2980, 2990, 3007, 2996, 3021>>],
    \* line 52: 'கருச்சி' -> 'திருச்சி'
    [wrong   |-> <<2965, 2992, 3009, 2970, 3021, 2970, 3007>>,
     correct |-> <<2980, 3007, 2992, 3009, 2970, 3021, 2970, 3007>>],
    \* line 53: 'தஇிறுச்சி' -> 'திருச்சி'
    [wrong   |-> <<2980, 2951, 3007, 2993, 3009, 2970, 3021, 2970, 3007>>,
     correct |-> <<2980, 3007, 2992, 3009, 2970, 3021, 2970, 3007>>],
    \* line 54: 'தஇருச்சி' -> 'திருச்சி'
    [wrong   |-> <<2980, 2951, 2992, 3009, 2970, 3021, 2970, 3007>>,
     correct |-> <<2980, 3007, 2992, 3009, 2970, 3021, 2970, 3007>>],
    \* line 55: 'திருச்ச' -> 'திருச்சி'
    [wrong   |-> <<2980, 3007, 2992, 3009, 2970, 3021, 2970>>,
     correct |-> <<2980, 3007, 2992, 3009, 2970, 3021, 2970, 3007>>],
    \* line 56: 'பெங்களுூரு' -> 'பெங்களூரு'
    [wrong   |-> <<2986, 3014, 2969, 3021, 2965, 2995, 3009, 3010, 2992, 3009>>,
     correct |-> <<2986, 3014, 2969, 3021, 2965, 2995, 3010, 2992, 3009>>],
    \* line 57: 'பெங்களூ®ரு' -> 'பெங்களூரு'
    [wrong   |-> <<2986, 3014, 2969, 3021, 2965, 2995, 3010, 174, 2992, 3009>>,
     correct |-> <<2986, 3014, 2969, 3021, 2965, 2995, 3010, 2992, 3009>>],
    \* line 58: 'மஙுரை' -> 'மதுரை'
    [wrong   |-> <<2990, 2969, 3009, 2992, 3016>>,
     correct |-> <<2990, 2980, 3009, 2992, 3016>>],
    \* line 59: 'மாதுரை' -> 'மதுரை'
    [wrong   |-> <<2990, 3006, 2980, 3009, 2992, 3016>>,
     correct |-> <<2990, 2980, 3009, 2992, 3016>>],
    \* line 60: 'Lமரை' -> 'மதுரை'
    [wrong   |-> <<76, 2990, 2992, 3016>>,
     correct |-> <<2990, 2980, 3009, 2992, 3016>>],
    \* line 61: 'Lமகரை' -> 'மதுரை'
    [wrong   |-> <<76, 2990, 2965, 2992, 3016>>,
     correct |-> <<2990, 2980, 3009, 2992, 3016>>],
    \* line 62: 'சலம்' -> 'சேலம்'
    [wrong   |-> <<2970, 2994, 2990, 3021>>,
     correct |-> <<2970, 3015, 2994, 2990, 3021>>],
    \* line 63: 'ும்பகொணம்' -> 'கும்பகோணம்'
    [wrong   |-> <<3009, 2990, 3021, 2986, 2965, 3018, 2979, 2990, 3021>>,
     correct |-> <<2965, 3009, 2990, 3021, 2986, 2965, 3019, 2979, 2990, 3021>>],
    \* line 64: 'கும்பகொணம்' -> 'கும்பகோணம்'
    [wrong   |-> <<2965, 3009, 2990, 3021, 2986, 2965, 3018, 2979, 2990, 3021>>,
     correct |-> <<2965, 3009, 2990, 3021, 2986, 2965, 3019, 2979, 2990, 3021>>],
    \* line 65: 'ஃம்பகொணம்' -> 'கும்பகோணம்'
    [wrong   |-> <<2947, 2990, 3021, 2986, 2965, 3018, 2979, 2990, 3021>>,
     correct |-> <<2965, 3009, 2990, 3021, 2986, 2965, 3019, 2979, 2990, 3021>>],
    \* line 66: 'காயம்புத்கூார்' -> 'கோயம்புத்தூர்'
    [wrong   |-> <<2965, 3006, 2991, 2990, 3021, 2986, 3009, 2980, 3021, 2965, 3010, 3006, 2992, 3021>>,
     correct |-> <<2965, 3019, 2991, 2990, 3021, 2986, 3009, 2980, 3021, 2980, 3010, 2992, 3021>>],
    \* line 67: 'காயம்புத்கூர்' -> 'கோயம்புத்தூர்'
    [wrong   |-> <<2965, 3006, 2991, 2990, 3021, 2986, 3009, 2980, 3021, 2965, 3010, 2992, 3021>>,
     correct |-> <<2965, 3019, 2991, 2990, 3021, 2986, 3009, 2980, 3021, 2980, 3010, 2992, 3021>>],
    \* line 68: 'கிகசசெந்கார்' -> 'திருச்செந்தூர்'
    [wrong   |-> <<2965, 3007, 2965, 2970, 2970, 3014, 2984, 3021, 2965, 3006, 2992, 3021>>,
     correct |-> <<2980, 3007, 2992, 3009, 2970, 3021, 2970, 3014, 2984, 3021, 2980, 3010, 2992, 3021>>],
    \* line 69: 'கிறுச்செந்கூர்' -> 'திருச்செந்தூர்'
    [wrong   |-> <<2965, 3007, 2993, 3009, 2970, 3021, 2970, 3014, 2984, 3021, 2965, 3010, 2992, 3021>>,
     correct |-> <<2980, 3007, 2992, 3009, 2970, 3021, 2970, 3014, 2984, 3021, 2980, 3010, 2992, 3021>>],
    \* line 70: 'திருநெல்வெலி' -> 'திருநெல்வேலி'
    [wrong   |-> <<2980, 3007, 2992, 3009, 2984, 3014, 2994, 3021, 2997, 3014, 2994, 3007>>,
     correct |-> <<2980, 3007, 2992, 3009, 2984, 3014, 2994, 3021, 2997, 3015, 2994, 3007>>],
    \* line 71: 'கன்னியாகுமரி' -> 'கன்னியாகுமரி'
    [wrong   |-> <<2965, 2985, 3021, 2985, 3007, 2991, 3006, 2965, 3009, 2990, 2992, 3007>>,
     correct |-> <<2965, 2985, 3021, 2985, 3007, 2991, 3006, 2965, 3009, 2990, 2992, 3007>>],
    \* line 72: 'Bறபரம' -> 'தாராபுரம்'
    [wrong   |-> <<66, 2993, 2986, 2992, 2990>>,
     correct |-> <<2980, 3006, 2992, 3006, 2986, 3009, 2992, 2990, 3021>>],
    \* line 73: 'Bாறாபுரம்' -> 'தாராபுரம்'
    [wrong   |-> <<66, 3006, 2993, 3006, 2986, 3009, 2992, 2990, 3021>>,
     correct |-> <<2980, 3006, 2992, 3006, 2986, 3009, 2992, 2990, 3021>>],
    \* line 74: 'ாறாபுரம்' -> 'தாராபுரம்'
    [wrong   |-> <<3006, 2993, 3006, 2986, 3009, 2992, 2990, 3021>>,
     correct |-> <<2980, 3006, 2992, 3006, 2986, 3009, 2992, 2990, 3021>>],
    \* line 75: 'கககுக்குiட' -> 'தூத்துக்குடி'
    [wrong   |-> <<2965, 2965, 2965, 3009, 2965, 3021, 2965, 3009, 105, 2975>>,
     correct |-> <<2980, 3010, 2980, 3021, 2980, 3009, 2965, 3021, 2965, 3009, 2975, 3007>>],
    \* line 76: 'BBகக19' -> 'தூத்துக்குடி'
    [wrong   |-> <<66, 66, 2965, 2965, 49, 57>>,
     correct |-> <<2980, 3010, 2980, 3021, 2980, 3009, 2965, 3021, 2965, 3009, 2975, 3007>>],
    \* line 77: 'ஒent' -> 'ஒசூர்'
    [wrong   |-> <<2962, 101, 110, 116>>,
     correct |-> <<2962, 2970, 3010, 2992, 3021>>],
    \* line 78: 'இராமேஸ்வேம்' -> 'இராமேஸ்வரம்'
    [wrong   |-> <<2951, 2992, 3006, 2990, 3015, 3000, 3021, 2997, 3015, 2990, 3021>>,
     correct |-> <<2951, 2992, 3006, 2990, 3015, 3000, 3021, 2997, 2992, 2990, 3021>>],
    \* line 79: 'பேதுந்து' -> 'பேருந்து'
    [wrong   |-> <<2986, 3015, 2980, 3009, 2984, 3021, 2980, 3009>>,
     correct |-> <<2986, 3015, 2992, 3009, 2984, 3021, 2980, 3009>>],
    \* line 80: 'பேதற்துகள்' -> 'பேருந்துகள்'
    [wrong   |-> <<2986, 3015, 2980, 2993, 3021, 2980, 3009, 2965, 2995, 3021>>,
     correct |-> <<2986, 3015, 2992, 3009, 2984, 3021, 2980, 3009, 2965, 2995, 3021>>],
    \* line 81: 'பேதுந்துகள்' -> 'பேருந்துகள்'
    [wrong   |-> <<2986, 3015, 2980, 3009, 2984, 3021, 2980, 3009, 2965, 2995, 3021>>,
     correct |-> <<2986, 3015, 2992, 3009, 2984, 3021, 2980, 3009, 2965, 2995, 3021>>],
    \* line 82: 'நலையைம்' -> 'நிலையம்'
    [wrong   |-> <<2984, 2994, 3016, 2991, 3016, 2990, 3021>>,
     correct |-> <<2984, 3007, 2994, 3016, 2991, 2990, 3021>>],
    \* line 83: 'தெொலைதூமர்' -> 'தொலைதூரம்'
    [wrong   |-> <<2980, 3014, 3018, 2994, 3016, 2980, 3010, 2990, 2992, 3021>>,
     correct |-> <<2980, 3018, 2994, 3016, 2980, 3010, 2992, 2990, 3021>>],
    \* line 84: 'போக்குவரத்துக்' -> 'போக்குவரத்துக்'
    [wrong   |-> <<2986, 3019, 2965, 3021, 2965, 3009, 2997, 2992, 2980, 3021, 2980, 3009, 2965, 3021>>,
     correct |-> <<2986, 3019, 2965, 3021, 2965, 3009, 2997, 2992, 2980, 3021, 2980, 3009, 2965, 3021>>],
    \* line 85: 'கழகம்' -> 'கழகம்'
    [wrong   |-> <<2965, 2996, 2965, 2990, 3021>>,
     correct |-> <<2965, 2996, 2965, 2990, 3021>>],
    \* line 86: 'அரசப்' -> 'அரசு'
    [wrong   |-> <<2949, 2992, 2970, 2986, 3021>>,
     correct |-> <<2949, 2992, 2970, 3009>>],
    \* line 88: '@tristcl' -> ''
    [wrong   |-> <<64, 116, 114, 105, 115, 116, 99, 108>>,
     correct |-> <<>>],
    \* line 89: '@tnstcl' -> ''
    [wrong   |-> <<64, 116, 110, 115, 116, 99, 108>>,
     correct |-> <<>>],
    \* line 90: '@tr' -> ''
    [wrong   |-> <<64, 116, 114>>,
     correct |-> <<>>],
    \* line 91: '@tnetohlaoin' -> ''
    [wrong   |-> <<64, 116, 110, 101, 116, 111, 104, 108, 97, 111, 105, 110>>,
     correct |-> <<>>],
    \* line 92: '@bstcbloelim' -> ''
    [wrong   |-> <<64, 98, 115, 116, 99, 98, 108, 111, 101, 108, 105, 109>>,
     correct |-> <<>>],
    \* line 93: 'tcblog.in' -> ''
    [wrong   |-> <<116, 99, 98, 108, 111, 103, 46, 105, 110>>,
     correct |-> <<>>],
    \* line 94: 'stcblog' -> ''
    [wrong   |-> <<115, 116, 99, 98, 108, 111, 103>>,
     correct |-> <<>>],
    \* line 95: 'tnstcbl' -> ''
    [wrong   |-> <<116, 110, 115, 116, 99, 98, 108>>,
     correct |-> <<>>],
    \* line 96: 'bg-in' -> ''
    [wrong   |-> <<98, 103, 45, 105, 110>>,
     correct |-> <<>>],
    \* line 97: 'log.in' -> ''
    [wrong   |-> <<108, 111, 103, 46, 105, 110>>,
     correct |-> <<>>],
    \* line 98: 'astcbloLin' -> ''
    [wrong   |-> <<97, 115, 116, 99, 98, 108, 111, 76, 105, 110>>,
     correct |-> <<>>],
    \* line 99: 'ccblog.in' -> ''
    [wrong   |-> <<99, 99, 98, 108, 111, 103, 46, 105, 110>>,
     correct |-> <<>>],
    \* line 100: 'gOhgah' -> ''
    [wrong   |-> <<103, 79, 104, 103, 97, 104>>,
     correct |-> <<>>],
    \* line 101: 'Lin' -> ''
    [wrong   |-> <<76, 105, 110>>,
     correct |-> <<>>],
    \* line 102: 'LDCU' -> ''
    [wrong   |-> <<76, 68, 67, 85>>,
     correct |-> <<>>],
    \* line 103: 'LC' -> ''
    [wrong   |-> <<76, 67>>,
     correct |-> <<>>],
    \* line 104: 'கa்' -> 'கரூர்'
    [wrong   |-> <<2965, 97, 3021>>,
     correct |-> <<2965, 2992, 3010, 2992, 3021>>],
    \* line 105: 'கCt' -> 'கரூர்'
    [wrong   |-> <<2965, 67, 116>>,
     correct |-> <<2965, 2992, 3010, 2992, 3021>>],
    \* line 106: 'Lர' -> 'மதுரை'
    [wrong   |-> <<76, 2992>>,
     correct |-> <<2990, 2980, 3009, 2992, 3016>>]
>>

\* d[key] = value on a dict held in insertion order: the value of a key the
\* dict holds is replaced in place, a new key goes last
SetItem(d, key, value) ==
    IF \E k \in DOMAIN d : d[k].wrong = key
    THEN [k \in DOMAIN d |->
              IF d[k].wrong = key THEN [wrong |-> key, correct |-> value] ELSE d[k]]
    ELSE Append(d, [wrong |-> key, correct |-> value])

RECURSIVE Written(_, _)
Written(d, writes) ==
    IF writes = <<>> THEN d
    ELSE Written(SetItem(d, Head(writes).wrong, Head(writes).correct), Tail(writes))

\* The dict TAMIL_CORRECTIONS as it stands: the literal and the assignments
\* made since
corrections == Written(TAMIL_CORRECTIONS, table_writes)

(***************************************************************************)
(* str primitives                                                          *)
(***************************************************************************)

\* s[i:j] for 1-based i and an exclusive end computed from a length
Slice(s, i, n) == SubSeq(s, i, i + n - 1)

\* `wrong in corrected`: substring test
Contains(s, sub) ==
    \E i \in 1..(Len(s) - Len(sub) + 1) : Slice(s, i, Len(sub)) = sub

\* replace as it would be with a count of 1: str.replace(old, new, 1)
RECURSIVE replace_first(_, _, _)
replace_first(s, old, new) ==
    IF Len(s) < Len(old) THEN s
    ELSE IF Slice(s, 1, Len(old)) = old
         THEN new \o SubSeq(s, Len(old) + 1, Len(s))
         ELSE <<Head(s)>> \o replace_first(Tail(s), old, new)

\* str.replace(old, new) for a non-empty old: scan from the left, replace
\* each occurrence found and resume the scan after it (non-overlapping).
RECURSIVE replace(_, _, _)
replace(s, old, new) ==
    IF Len(s) < Len(old) THEN s
    ELSE IF Slice(s, 1, Len(old)) = old
         THEN new \o replace(SubSeq(s, Len(old) + 1, Len(s)), old, new)
         ELSE <<Head(s)>> \o replace(Tail(s), old, new)

\* The loop of lines 116-118 from rule k on: `if wrong in corrected` is
\* evaluated for every rule, in the order of the table.
RECURSIVE ApplyRules(_, _)
ApplyRules(cur, k) ==
    IF k > Len(corrections) THEN cur
    ELSE IF Contains(cur, corrections[k].wrong)
         THEN ApplyRules(replace(cur, corrections[k].wrong,
                                      corrections[k].correct), k + 1)
         ELSE ApplyRules(cur, k + 1)

\* correct_tamil_text (lines 110-120)
correct_tamil_text(t) ==
    IF t = <<>> THEN t ELSE ApplyRules(t, 1)

(***************************************************************************)
(* Python values                                                           *)
(***************************************************************************)

\* Optional[T]: None is the empty sequence, a value v is <<v>>
None == <<>>
Some(v) == <<v>>

\* dict.get(key, default); a dict is a function on the keys it holds
DictGet(d, key, default) == IF key \in DOMAIN d THEN d[key] ELSE default

\* The characters str.strip() removes (str.isspace)
Whitespace ==
    {9, 10, 11, 12, 13, 28, 29, 30, 31, 32, 133, 160, 5760, 8232, 8233,
     8239, 8287, 12288} \cup (8192..8202)

RECURSIVE lstrip(_)
lstrip(s) ==
    IF s # <<>> /\ Head(s) \in Whitespace THEN lstrip(Tail(s)) ELSE s

RECURSIVE rstrip(_)
rstrip(s) ==
    IF s # <<>> /\ s[Len(s)] \in Whitespace
    THEN rstrip(SubSeq(s, 1, Len(s) - 1)) ELSE s

\* str.strip()
strip(s) == rstrip(lstrip(s))

\* join as it would be with a newline after every line, the last included
RECURSIVE join_terminated(_)
join_terminated(ls) ==
    IF ls = <<>> THEN <<>> ELSE Head(ls) \o <<10>> \o join_terminated(Tail(ls))

\* "\n".join(lines), line 156
RECURSIVE join(_)
join(ls) ==
    IF ls = <<>> THEN <<>>
    ELSE IF Len(ls) = 1 THEN Head(ls)
    ELSE Head(ls) \o <<10>> \o join(Tail(ls))

(***************************************************************************)
(* Numbers.  A confidence is a float in [0, 1]; the model holds it as an   *)
(* integer count of units of 10^-5, so 0.92 is 92000.  A mean is held as   *)
(* the fraction num/den of such units, the division left exact.  A         *)
(* coordinate of a bounding polygon is a float held in tenths of a pixel.  *)
(***************************************************************************)

\* round(confidence, 4) of line 149: to the nearest multiple of 10 units,
\* a tie going to the even one
round4(c) ==
    LET q == c \div 10
        r == c % 10
    IN  IF r < 5 THEN q * 10
        ELSE IF r > 5 THEN (q + 1) * 10
        ELSE IF q % 2 = 0 THEN q * 10 ELSE (q + 1) * 10

\* round(avg_confidence, 4) of lines 230 and 294, of the fraction num/den
round4_mean(m) ==
    LET q == m.num \div (10 * m.den)
        r == m.num - q * 10 * m.den          \* 0 <= r < 10 * den
    IN  IF 2 * r < 10 * m.den THEN q * 10
        ELSE IF 2 * r > 10 * m.den THEN (q + 1) * 10
        ELSE IF q % 2 = 0 THEN q * 10 ELSE (q + 1) * 10

\* int(coord) of line 150: truncation toward zero
int(c) == IF c >= 0 THEN c \div 10 ELSE -((-c) \div 10)

(***************************************************************************)
(* parse_ocr_result, lines 123-158                                         *)
(***************************************************************************)

\* A page of the engine's output is a dict; PaddleOCR's "nothing found" page
\* None is the record NonePage, on which .get raises.
NonePage == [none |-> TRUE]
IsDict(page) == "none" \notin DOMAIN page

\* what a call hands back: a return value, or the exception it raised
Return(v) == [raised |-> FALSE, value |-> v]
Raise(type, msg) == [raised |-> TRUE, exc |-> [type |-> type, msg |-> msg]]

\* first_page as it would be reading the last page, result[-1]
last_page(res) == res[Len(res)]

\* page_result = result[0], line 131
first_page(res) == res[1]

\* retained as it would be without .strip()
retained_unstripped(corrected_text) == corrected_text # <<>>

\* `if corrected_text.strip():`, line 144
retained(corrected_text) == strip(corrected_text) # <<>>

\* original_text as it would be without the comparison: the raw text always
original_text_always(txt, corrected_text) == Some(txt)

\* `text if text != corrected_text else None`, line 148
original_text(txt, corrected_text) ==
    IF txt # corrected_text THEN Some(txt) ELSE None

\* the bbox of line 150
int_bbox(bbox) ==
    IF bbox # <<>>
    THEN [p \in DOMAIN bbox |-> [c \in DOMAIN bbox[p] |-> int(bbox[p][c])]]
    ELSE <<>>

\* mean as it would be without the division
mean_undivided(total_confidence, count) ==
    IF count > 0 THEN [num |-> total_confidence, den |-> 1]
    ELSE [num |-> 0, den |-> 1]

\* `total_confidence / count if count > 0 else 0`, line 155
mean(total_confidence, count) ==
    IF count > 0 THEN [num |-> total_confidence, den |-> count]
    ELSE [num |-> 0, den |-> 1]

\* The loop of lines 136-153 from region i on (i counts from 1); acc holds
\* the locals lines, details, total_confidence and count.
RECURSIVE ParseRegions(_, _, _, _, _)
ParseRegions(rec_texts, rec_scores, rec_polys, i, acc) ==
    IF i > Len(rec_texts) THEN acc
    ELSE
        LET txt == rec_texts[i]
            confidence == IF i <= Len(rec_scores) THEN rec_scores[i] ELSE 0
            bbox == IF i <= Len(rec_polys) THEN rec_polys[i] ELSE <<>>
            corrected_text == correct_tamil_text(txt)
        IN  IF retained(corrected_text)
            THEN ParseRegions(rec_texts, rec_scores, rec_polys, i + 1,
                     [lines   |-> Append(acc.lines, corrected_text),
                      details |-> Append(acc.details,
                          [text          |-> corrected_text,
                           original_text |-> original_text(txt, corrected_text),
                           confidence    |-> round4(confidence),
                           bbox          |-> int_bbox(bbox)]),
                      total_confidence |-> acc.total_confidence + confidence,
                      count   |-> acc.count + 1])
            ELSE ParseRegions(rec_texts, rec_scores, rec_polys, i + 1, acc)

\* the locals of lines 125-128
NoRegions == [lines |-> <<>>, details |-> <<>>, total_confidence |-> 0, count |-> 0]

parse_ocr_result(res) ==
    IF res # <<>> /\ ~IsDict(first_page(res))
    THEN Raise("AttributeError", "'NoneType' object has no attribute 'get'")
    ELSE
        LET acc == IF res # <<>>
                   THEN ParseRegions(DictGet(first_page(res), "rec_texts", <<>>),
                                     DictGet(first_page(res), "rec_scores", <<>>),
                                     DictGet(first_page(res), "rec_polys", <<>>),
                                     1, NoRegions)
                   ELSE NoRegions
        IN  Return([extracted_text |-> join(acc.lines),
                    lines          |-> acc.lines,
                    avg_confidence |-> mean(acc.total_confidence, acc.count),
                    details        |-> acc.details])

(***************************************************************************)
(* Engine outputs handed to parse_ocr_result: up to MaxRegions detected    *)
(* regions on the first page, with or without a second page.               *)
(***************************************************************************)
MaxRegions == 3

\* A detected region: its text and its confidence
Regions == {
    \* 'தம்ழ்நாடு', 0.92: a misreading the table corrects
    [text |-> <<2980, 2990, 3021, 2996, 3021, 2984, 3006, 2975, 3009>>, score |-> 92000],
    \* '@tristcl', 0.5: noise the table deletes
    [text |-> <<64, 116, 114, 105, 115, 116, 99, 108>>, score |-> 50000],
    \* '@tr ', 0.87654: noise whose deletion leaves a space
    [text |-> <<64, 116, 114, 32>>, score |-> 87654],
    \* 'சேலம்', 0.92346: read correctly, no rule applies
    [text |-> <<2970, 3015, 2994, 2990, 3021>>, score |-> 92346],
    \* 'மதுரை' and a line break, 0.5
    [text |-> <<2990, 2980, 3009, 2992, 3016, 10>>, score |-> 50000],
    \* '', 0.1: an empty text
    [text |-> <<>>, score |-> 10000] }

\* a bounding polygon, in tenths of a pixel
Quad == << <<105, 207>>, <<1299, 207>>, <<1299, 455>>, <<105, 455>> >>

\* the pages holding the regions rs: rec_scores complete, one short or
\* absent; rec_polys complete or absent
PagesOf(rs) ==
    LET texts  == [i \in DOMAIN rs |-> rs[i].text]
        scores == [i \in DOMAIN rs |-> rs[i].score]
        polys  == [i \in DOMAIN rs |-> Quad]
        short  == SubSeq(scores, 1, Len(scores) - 1)
    IN  { [rec_texts |-> texts, rec_scores |-> scores, rec_polys |-> polys],
          [rec_texts |-> texts, rec_scores |-> scores],
          [rec_texts |-> texts, rec_scores |-> short, rec_polys |-> polys],
          [rec_texts |-> texts, rec_polys |-> polys] }

FirstPages ==
    UNION { PagesOf(rs) : rs \in UNION { [1..n -> Regions] : n \in 0..MaxRegions } }

\* a second page, which a single image never produces: 'கரூர்', 0.9
SecondPage == [rec_texts |-> << <<2965, 2992, 3010, 2992, 3021>> >>,
               rec_scores |-> <<90000>>]

EngineResults ==
    {<<>>, <<NonePage>>} \cup { <<p>> : p \in FirstPages }
                         \cup { <<p, SecondPage>> : p \in FirstPages }

(***************************************************************************)
(* Strings handed to correct_tamil_text: up to MaxPieces pieces, each a    *)
(* fragment an OCR engine may emit for a bus-schedule image.               *)
(***************************************************************************)
MaxPieces == 3

Pieces == {
    <<2980, 3007, 2992, 3009, 2970, 3021, 2970, 3007>>,       \* 'திருச்சி' (correctly read)
    <<2980, 2990, 3021, 2996, 3021, 2984, 3006, 2975, 3009>>, \* 'தம்ழ்நாடு'
    <<2965, 3007, 2965, 2970, 2970, 3014, 2984, 3021, 2965, 3006, 2992, 3021>>, \* 'கிகசசெந்கார்'
    <<2965, 2992, 3009, 2970, 3021, 2970, 3007>>,             \* 'கருச்சி'
    <<64, 116>>,                                              \* '@t'
    <<64, 116, 114>>,                                         \* '@tr'
    <<114>>,                                                  \* 'r'
    <<76>>,                                                   \* 'L'
    <<105, 110>> }                                            \* 'in'

RECURSIVE Concat(_)
Concat(ps) == IF ps = <<>> THEN <<>> ELSE Head(ps) \o Concat(Tail(ps))

Inputs == { Concat(ps) : ps \in UNION { [1..n -> Pieces] : n \in 0..MaxPieces } }

(***************************************************************************)
(* The HTTP handlers, lines 178-307.  Each request is a coroutine on the   *)
(* server's event loop: it runs without interruption from one `await` to   *)
(* the next, and other requests run only while it is suspended at one.     *)
(***************************************************************************)

\* ocr = PaddleOCR(lang='ta', use_textline_orientation=True), lines 40-43
OcrHandle == [lang |-> "ta", use_textline_orientation |-> TRUE]

\* Requests the server handles at once
NumRequests == 2
Requests == 1..NumRequests

\* HealthResponse(...) of lines 181-185
health_check == [status |-> "healthy", service |-> "paddleocr",
                 languages |-> <<"ta", "en">>]

\* str(e): the message the exception was raised with
str(e) == e.msg

\* OCRResult(success=False, ...) of lines 236-243 and 300-307
Failed(e) ==
    [success |-> FALSE, extracted_text |-> <<>>, lines |-> <<>>,
     confidence |-> 0, details |-> <<>>, error |-> Some(str(e))]

\* OCRResult(success=True, ...) of lines 226-232 and 290-296
Succeeded(v) ==
    [success |-> TRUE, extracted_text |-> v.extracted_text, lines |-> v.lines,
     confidence |-> round4_mean(v.avg_confidence), details |-> v.details,
     error |-> None]

\* The bodies a client uploads or a URL serves
JpegBytes == "JPEG image, mode RGB"
PngBytes  == "PNG image, mode RGBA"
TextBytes == "text/html, not an image"
Uploads == {JpegBytes, PngBytes, TextBytes}

\* Image.open(io.BytesIO(contents)), lines 206 and 275
Image_open(contents) ==
    IF contents = JpegBytes THEN Return([mode |-> "RGB", pixels |-> contents])
    ELSE IF contents = PngBytes THEN Return([mode |-> "RGBA", pixels |-> contents])
    ELSE Raise("UnidentifiedImageError", "cannot identify image file")

\* lines 209-213: the image in mode RGB, as an array
to_rgb_array(image) ==
    IF image.mode # "RGB" THEN [image EXCEPT !.mode = "RGB"] ELSE image

\* What ocr.predict may return or raise (lines 219 and 285): the engine is
\* a black box, so a call has any of these outcomes.
Predictions == {
    Raise("RuntimeError", "PaddleOCR inference failed"),
    Return(<<>>),
    Return(<<NonePage>>),
    \* 'தம்ழ்நாடு', 0.92
    Return(<< [rec_texts |-> << <<2980, 2990, 3021, 2996, 3021, 2984, 3006, 2975, 3009>> >>,
               rec_scores |-> <<92000>>, rec_polys |-> <<Quad>>] >>),
    \* '@tristcl', 0.5
    Return(<< [rec_texts |-> << <<64, 116, 114, 105, 115, 116, 99, 108>> >>,
               rec_scores |-> <<50000>>, rec_polys |-> <<Quad>>] >>) }

\* What `await client.get(url)` may do within its timeout of 30 s (lines
\* 269-270): httpx raises its timeout with the empty message of the
\* TimeoutError under it.
Fetches == {
    Raise("ReadTimeout", ""),
    Raise("ConnectError", "All connection attempts failed"),
    Return([status_code |-> 404, content |-> TextBytes]),
    Return([status_code |-> 200, content |-> TextBytes]),
    Return([status_code |-> 200, content |-> JpegBytes]) }

Urls == {"http://example.org/timetable"}

\* response.raise_for_status(), line 271
raise_for_status(response) ==
    IF response.status_code \in 200..299 THEN Return(response)
    ELSE Raise("HTTPStatusError", "Client error '404 Not Found' for url")

\* Lines 206-232 and 275-296, from the bytes of the image to the return:
\* no await, so one step.  prediction is what ocr.predict does if called.
\* The result is the exception caught, if any, and the OCRResult returned.
Extraction(contents, prediction) ==
    LET opened == Image_open(contents)
        parsed == parse_ocr_result(prediction.value)
    IN  IF opened.raised THEN [caught |-> Some(opened.exc), response |-> Failed(opened.exc)]
        ELSE IF prediction.raised
             THEN [caught |-> Some(prediction.exc), response |-> Failed(prediction.exc)]
        ELSE IF parsed.raised
             THEN [caught |-> Some(parsed.exc), response |-> Failed(parsed.exc)]
        ELSE [caught |-> None, response |-> Succeeded(parsed.value)]

\* ocr.predict(image_np), lines 219 and 285: the outcomes of the call
predict(image_np) == Predictions

\* ocr.predict is reached only when the image decodes (lines 206-219)
PredictionsFor(contents) ==
    IF Image_open(contents).raised THEN {None}
    ELSE { Some(p) : p \in predict(to_rgb_array(Image_open(contents).value)) }

\* A request: its endpoint, where its coroutine stands, what it was sent,
\* what the fetch and the engine did for it, the exception its handler
\* caught, and its response.
IdleRequest ==
    [endpoint |-> "", pc |-> "idle", input |-> None, fetched |-> None,
     prediction |-> None, caught |-> None, response |-> None]

OtherThanRequests == <<text, corrected, cpc, pass, result, out, ppc>>

\* GET /health, lines 178-185
HealthCheck(r) ==
    /\ req[r].pc = "idle"
    /\ req' = [req EXCEPT ![r] = [IdleRequest EXCEPT
                  !.endpoint = "/health", !.pc = "done",
                  !.response = Some(health_check)]]
    /\ UNCHANGED <<table_writes, ocr>>
    /\ UNCHANGED OtherThanRequests

\* POST /extract up to `await file.read()`, lines 199-203
ExtractReceive(r) ==
    /\ req[r].pc = "idle"
    /\ \E file \in Uploads :
           req' = [req EXCEPT ![r] = [IdleRequest EXCEPT
                      !.endpoint = "/extract", !.pc = "read",
                      !.input = Some(file)]]
    /\ UNCHANGED <<table_writes, ocr>>
    /\ UNCHANGED OtherThanRequests

\* the request r once its handler has run Extraction on contents
Finished(r, contents, prediction) ==
    LET done == Extraction(contents, IF prediction = None THEN Return(<<>>)
                                     ELSE prediction[1])
    IN  [req EXCEPT ![r].pc = "done", ![r].prediction = prediction,
                    ![r].caught = done.caught,
                    ![r].response = Some(done.response)]

\* ExtractRun as it would be if the handler remembered its first line in
\* the correction table
ExtractRunRemembering(r) ==
    /\ req[r].pc = "read"
    /\ \E prediction \in PredictionsFor(req[r].input[1]) :
           /\ req' = Finished(r, req[r].input[1], prediction)
           /\ table_writes' =
                  IF req'[r].response[1].lines # <<>>
                  THEN Append(table_writes,
                              [wrong   |-> req'[r].response[1].lines[1],
                               correct |-> req'[r].response[1].lines[1]])
                  ELSE table_writes
    /\ UNCHANGED ocr
    /\ UNCHANGED OtherThanRequests

\* POST /extract from the return of file.read() on, lines 203-243
ExtractRun(r) ==
    /\ req[r].pc = "read"
    /\ \E prediction \in PredictionsFor(req[r].input[1]) :
           req' = Finished(r, req[r].input[1], prediction)
    /\ UNCHANGED <<table_writes, ocr>>
    /\ UNCHANGED OtherThanRequests

\* POST /extract-url up to `await client.get(url)`, lines 262-270
UrlReceive(r) ==
    /\ req[r].pc = "idle"
    /\ \E url \in Urls :
           req' = [req EXCEPT ![r] = [IdleRequest EXCEPT
                      !.endpoint = "/extract-url", !.pc = "get",
                      !.input = Some(url)]]
    /\ UNCHANGED <<table_writes, ocr>>
    /\ UNCHANGED OtherThanRequests

\* POST /extract-url from the end of client.get to the close of the client,
\* lines 270-272; an exception leaves through `except`, lines 298-307
UrlGet(r) ==
    /\ req[r].pc = "get"
    /\ \E fetch \in Fetches :
           LET checked == IF fetch.raised THEN fetch
                          ELSE raise_for_status(fetch.value)
           IN  req' = IF checked.raised
                      THEN [req EXCEPT ![r].pc = "done",
                                       ![r].fetched = Some(fetch),
                                       ![r].caught = Some(checked.exc),
                                       ![r].response = Some(Failed(checked.exc))]
                      ELSE [req EXCEPT ![r].pc = "close",
                                       ![r].fetched = Some(fetch)]
    /\ UNCHANGED <<table_writes, ocr>>
    /\ UNCHANGED OtherThanRequests

\* POST /extract-url once the client is closed, lines 275-307
UrlRun(r) ==
    /\ req[r].pc = "close"
    /\ \E prediction \in PredictionsFor(req[r].fetched[1].value.content) :
           req' = Finished(r, req[r].fetched[1].value.content, prediction)
    /\ UNCHANGED <<table_writes, ocr>>
    /\ UNCHANGED OtherThanRequests

\* the response is sent and the request is gone; the next one may come
Respond(r) ==
    /\ req[r].pc = "done"
    /\ req' = [req EXCEPT ![r] = IdleRequest]
    /\ UNCHANGED <<table_writes, ocr>>
    /\ UNCHANGED OtherThanRequests

(***************************************************************************)
(* Specifications.  The globals start as the module's import leaves them;  *)
(* a component a specification does not run stays idle.                    *)
(***************************************************************************)
InitGlobals == table_writes = <<>> /\ ocr = OcrHandle
NoCorrectCall == text = <<>> /\ corrected = <<>> /\ cpc = "idle" /\ pass = 0
NoParseCall == result = <<>> /\ out = None /\ ppc = "idle"
NoRequests == req = [r \in Requests |-> IdleRequest]

\* Calls of correct_tamil_text
InitCorrect ==
    /\ InitGlobals /\ NoParseCall /\ NoRequests
    /\ text \in Inputs
    /\ corrected = <<>>
    /\ cpc = "call"
    /\ pass = 1

\* a call of correct_tamil_text(text), lines 110-120
Correct ==
    /\ cpc = "call"
    /\ corrected' = correct_tamil_text(text)
    /\ cpc' = "returned"
    /\ UNCHANGED <<text, pass, result, out, ppc, table_writes, ocr, req>>

\* the caller hands the returned string to correct_tamil_text again
Recorrect ==
    /\ cpc = "returned"
    /\ pass = 1
    /\ text' = corrected
    /\ cpc' = "call"
    /\ pass' = 2
    /\ UNCHANGED <<corrected, result, out, ppc, table_writes, ocr, req>>

NextCorrect == Correct \/ Recorrect

SpecCorrect == InitCorrect /\ [][NextCorrect]_vars

\* Calls of parse_ocr_result
InitParse ==
    /\ InitGlobals /\ NoCorrectCall /\ NoRequests
    /\ result \in EngineResults
    /\ out = None
    /\ ppc = "call"

\* a call of parse_ocr_result(result), lines 123-158
Parse ==
    /\ ppc = "call"
    /\ out' = parse_ocr_result(result)
    /\ ppc' = "returned"
    /\ UNCHANGED <<text, corrected, cpc, pass, result, table_writes, ocr, req>>

NextParse == Parse

SpecParse == InitParse /\ [][NextParse]_vars

\* The service: the handlers of concurrent requests
Init == InitGlobals /\ NoCorrectCall /\ NoParseCall /\ NoRequests

Next ==
    \E r \in Requests :
        \/ HealthCheck(r)
        \/ ExtractReceive(r)
        \/ ExtractRun(r)
        \/ UrlReceive(r)
        \/ UrlGet(r)
        \/ UrlRun(r)
        \/ Respond(r)

Spec == Init /\ [][Next]_vars

(***************************************************************************)
(* Claims about correct_tamil_text, checked under SpecCorrect              *)
(***************************************************************************)

\* C1: correction is idempotent on its own output: a string returned by
\* correct_tamil_text is returned unchanged when it is corrected again.
C1_Idempotent ==
    (cpc = "returned" /\ pass = 2) => corrected = text

\* C2: the returned string contains no occurrence of the pattern of any
\* deletion rule (a rule whose replacement is the empty string).
C2_DeletionLeavesNoOccurrence ==
    cpc = "returned" =>
        \A k \in 1..Len(TAMIL_CORRECTIONS) :
            TAMIL_CORRECTIONS[k].correct = <<>>
                => ~Contains(corrected, TAMIL_CORRECTIONS[k].wrong)

\* The positions of s at which old occurs
Occurrences(s, old) ==
    { p \in 1..(Len(s) - Len(old) + 1) : Slice(s, p, Len(old)) = old }

\* The occurrences a left-to-right scan replaces: an occurrence is taken
\* exactly when no taken occurrence to its left overlaps it.
Taken(s, old) ==
    CHOOSE C \in SUBSET Occurrences(s, old) :
        \A p \in Occurrences(s, old) :
            p \in C <=> ~\E q \in C : q < p /\ p < q + Len(old)

\* s from position p on, with the occurrences in C replaced by new
RECURSIVE Rewritten(_, _, _, _, _)
Rewritten(s, old, new, C, p) ==
    IF p > Len(s) THEN <<>>
    ELSE IF p \in C THEN new \o Rewritten(s, old, new, C, p + Len(old))
    ELSE <<s[p]>> \o Rewritten(s, old, new, C, p + 1)

\* Every rule from k on, once each and in declaration order
RECURSIVE OrderedPass(_, _)
OrderedPass(cur, k) ==
    IF k > Len(TAMIL_CORRECTIONS) THEN cur
    ELSE IF Occurrences(cur, TAMIL_CORRECTIONS[k].wrong) = {}
         THEN OrderedPass(cur, k + 1)
         ELSE OrderedPass(
                  Rewritten(cur, TAMIL_CORRECTIONS[k].wrong,
                            TAMIL_CORRECTIONS[k].correct,
                            Taken(cur, TAMIL_CORRECTIONS[k].wrong), 1),
                  k + 1)

\* C9: the result is that of one ordered pass over the table: each rule, in
\* declaration order and exactly once, replaces all non-overlapping
\* occurrences (scanned left to right) of its pattern in the current string;
\* the empty input is returned unchanged.
C9_SingleOrderedPass ==
    cpc = "returned" =>
        /\ corrected = OrderedPass(text, 1)
        /\ text = <<>> => corrected = text

\* C9 witness: 'கருச்சி' 'கிகசசெந்கார்' has been corrected.  Rule 3 rewrote the
\* first word to 'திருச்சி' and the later rule 6 ('திருச்ச') then acted on that
\* text; rule 19 rewrote the second word to 'திருச்செந்தூர்', which holds the
\* pattern of rule 6 again, and rule 6 was not applied a second time.
C9_Witness ==
    /\ cpc = "returned"
    /\ pass = 1
    /\ text = <<2965, 2992, 3009, 2970, 3021, 2970, 3007>>
              \o <<2965, 3007, 2965, 2970, 2970, 3014, 2984, 3021, 2965, 3006, 2992, 3021>>
    /\ corrected = <<2980, 3007, 2992, 3009, 2970, 3021, 2970, 3007, 3007>>
                   \o <<2980, 3007, 2992, 3009, 2970, 3021, 2970, 3014, 2984, 3021, 2980, 3010, 2992, 3021>>
    /\ Contains(corrected, TAMIL_CORRECTIONS[6].wrong)

(***************************************************************************)
(* Claims about parse_ocr_result, checked under SpecParse                  *)
(***************************************************************************)

\* parse_ocr_result has returned (it did not raise)
Returned == ppc = "returned" /\ ~out.raised

\* The regions of the first page of the engine's output
Texts == IF result = <<>> THEN <<>> ELSE DictGet(result[1], "rec_texts", <<>>)
Scores == IF result = <<>> THEN <<>> ELSE DictGet(result[1], "rec_scores", <<>>)
ScoreAt(i) == IF i <= Len(Scores) THEN Scores[i] ELSE 0

\* s is empty or holds whitespace only
Blank(s) == \A i \in 1..Len(s) : s[i] \in Whitespace

\* The corrected text of every region of the first page
CorrectedTexts == [i \in 1..Len(Texts) |-> correct_tamil_text(Texts[i])]

\* The regions whose corrected text, in ct, is neither empty nor whitespace
\* only
KeptIn(ct) == { i \in DOMAIN ct : ~Blank(ct[i]) }
Kept == KeptIn(CorrectedTexts)

\* The k-th region of kept in the engine's order
Kth(kept, k) == CHOOSE i \in kept : Cardinality({ j \in kept : j < i }) = k - 1

RECURSIVE SumOfScores(_)
SumOfScores(S) ==
    IF S = {} THEN 0
    ELSE LET i == CHOOSE j \in S : TRUE IN ScoreAt(i) + SumOfScores(S \ {i})

\* C4: a region of the first page appears in lines and details if and only
\* if its corrected text is neither empty nor whitespace only, and the count
\* and the confidence sum behind the mean cover exactly the retained regions.
C4_Retention ==
    Returned =>
        LET ct == CorrectedTexts
            kept == KeptIn(ct)
        IN  /\ Len(out.value.lines) = Cardinality(kept)
            /\ Len(out.value.details) = Cardinality(kept)
            /\ \A k \in 1..Len(out.value.lines) : ~Blank(out.value.lines[k])
            /\ \A i \in 1..Len(Texts) :
                   i \in kept <=>
                       \E k \in 1..Len(out.value.lines) :
                           /\ Kth(kept, k) = i
                           /\ out.value.lines[k] = ct[i]
                           /\ out.value.details[k].text = ct[i]
            /\ IF kept = {}
               THEN out.value.avg_confidence = [num |-> 0, den |-> 1]
               ELSE /\ out.value.avg_confidence.den = Cardinality(kept)
                    /\ out.value.avg_confidence.num = SumOfScores(kept)

\* C4 witness: '@tristcl', 'தம்ழ்நாடு', '@tr ' was parsed: the first region was
\* deleted whole, the third down to a space, and only the second is retained.
C4_Witness ==
    /\ Returned
    /\ Texts = << <<64, 116, 114, 105, 115, 116, 99, 108>>,
                  <<2980, 2990, 3021, 2996, 3021, 2984, 3006, 2975, 3009>>,
                  <<64, 116, 114, 32>> >>
    /\ Len(Scores) = 3
    /\ out.value.lines = << <<2980, 2990, 3007, 2996, 3021, 2984, 3006, 2975, 3009>> >>
    /\ out.value.avg_confidence = [num |-> 92000, den |-> 1]

\* The start of line k in the joined text, counted from 0
RECURSIVE Offset(_, _)
Offset(ls, k) == IF k = 1 THEN 0 ELSE Offset(ls, k - 1) + Len(ls[k - 1]) + 1

\* t is the lines ls with one newline between consecutive lines and nothing
\* after the last line
IsJoin(t, ls) ==
    /\ Len(t) = IF ls = <<>> THEN 0 ELSE Offset(ls, Len(ls) + 1) - 1
    /\ \A k \in 1..Len(ls) :
           /\ SubSeq(t, Offset(ls, k) + 1, Offset(ls, k) + Len(ls[k])) = ls[k]
           /\ k < Len(ls) => t[Offset(ls, k + 1)] = 10

\* C5: extracted_text equals the retained lines joined with a single newline
\* between consecutive lines, it never ends with a newline character, and
\* it is the empty string when no line is retained.
C5_NeverEndsWithNewline ==
    Returned =>
        /\ IsJoin(out.value.extracted_text, out.value.lines)
        /\ out.value.lines = <<>> => out.value.extracted_text = <<>>
        /\ \/ out.value.extracted_text = <<>>
           \/ out.value.extracted_text[Len(out.value.extracted_text)] # 10

\* C5 as amended: extracted_text equals the retained lines joined with a
\* single newline between consecutive lines, no newline is added after the
\* last line (it ends with a newline character only when the last retained
\* line itself ends with one), and it is the empty string when no line is
\* retained.
C5_JoinAddsNoTrailingNewline ==
    Returned =>
        /\ IsJoin(out.value.extracted_text, out.value.lines)
        /\ out.value.lines = <<>> => out.value.extracted_text = <<>>
        /\ (/\ out.value.extracted_text # <<>>
            /\ out.value.extracted_text[Len(out.value.extracted_text)] = 10)
           => LET last == out.value.lines[Len(out.value.lines)]
              IN  last # <<>> /\ last[Len(last)] = 10

\* C5 witness: 'தம்ழ்நாடு' and 'மதுரை' with a line break were parsed; both
\* lines are retained and the second keeps its line break.
C5_Witness ==
    /\ Returned
    /\ out.value.lines = << <<2980, 2990, 3007, 2996, 3021, 2984, 3006, 2975, 3009>>,
                            <<2990, 2980, 3009, 2992, 3016, 10>> >>
    /\ out.value.extracted_text =
           <<2980, 2990, 3007, 2996, 3021, 2984, 3006, 2975, 3009>>
           \o <<10>> \o <<2990, 2980, 3009, 2992, 3016, 10>>

\* C6: the mean confidence is the sum of the confidences of the retained
\* regions divided by their number, and exactly 0 when none is retained.
C6_MeanConfidence ==
    Returned =>
        LET kept == Kept
        IN  IF kept = {}
            THEN /\ out.value.avg_confidence.num = 0
                 /\ out.value.avg_confidence.den # 0
            ELSE /\ out.value.avg_confidence.den > 0
                 /\ out.value.avg_confidence.num * Cardinality(kept)
                        = SumOfScores(kept) * out.value.avg_confidence.den

\* C6 witness: the engine found regions, with confidences above 0, and every
\* one of them was dropped as noise: the mean is 0.
C6_Witness ==
    /\ Returned
    /\ Len(Texts) = MaxRegions
    /\ \A i \in 1..Len(Texts) : ScoreAt(i) > 0
    /\ Kept = {}
    /\ out.value.lines = <<>>
    /\ out.value.avg_confidence.num = 0

\* C7: in every detail record, text is the corrected text of its region and
\* original_text is null exactly when the corrected text equals the raw text
\* of the region, and is that raw text otherwise.
C7_OriginalText ==
    Returned =>
        LET ct == CorrectedTexts
            kept == KeptIn(ct)
        IN  /\ Len(out.value.details) = Cardinality(kept)
            /\ \A k \in 1..Len(out.value.details) :
                   LET i == Kth(kept, k)
                       d == out.value.details[k]
                   IN  /\ d.text = ct[i]
                       /\ d.original_text = None <=> ct[i] = Texts[i]
                       /\ d.original_text # None => d.original_text = Some(Texts[i])

\* C7 witness: 'தம்ழ்நாடு' (corrected) and 'சேலம்' (left as read) were parsed:
\* the first record carries its raw text, the second carries null.
C7_Witness ==
    /\ Returned
    /\ Len(out.value.details) = 2
    /\ out.value.details[1].original_text
           = Some(<<2980, 2990, 3021, 2996, 3021, 2984, 3006, 2975, 3009>>)
    /\ out.value.details[1].text # Texts[1]
    /\ out.value.details[2].original_text = None
    /\ out.value.details[2].text = Texts[2]

\* C10: lines and details have the same length, details[i].text = lines[i],
\* and the retained entries are the corrected texts of the retained regions
\* of the first page, in the engine's order, each once.
C10_LinesAndDetailsAligned ==
    Returned =>
        LET ct == CorrectedTexts
            kept == KeptIn(ct)
        IN  /\ Len(out.value.lines) = Len(out.value.details)
            /\ \A k \in 1..Len(out.value.lines) :
                   out.value.details[k].text = out.value.lines[k]
            /\ Len(out.value.lines) = Cardinality(kept)
            /\ \A k \in 1..Len(out.value.lines) :
                   out.value.lines[k] = ct[Kth(kept, k)]

\* C10 witness: two pages; the first holds 'தம்ழ்நாடு', '@tristcl', 'சேலம்'.  The
\* lines are the first and the third region, in that order, and nothing of
\* the second page.
C10_Witness ==
    /\ Returned
    /\ Len(result) = 2
    /\ Texts = << <<2980, 2990, 3021, 2996, 3021, 2984, 3006, 2975, 3009>>,
                  <<64, 116, 114, 105, 115, 116, 99, 108>>,
                  <<2970, 3015, 2994, 2990, 3021>> >>
    /\ out.value.lines = << <<2980, 2990, 3007, 2996, 3021, 2984, 3006, 2975, 3009>>,
                            <<2970, 3015, 2994, 2990, 3021>> >>
    /\ Len(out.value.details) = 2

(***************************************************************************)
(* Claims about the handlers, checked under Spec                           *)
(***************************************************************************)

\* C3: whenever decoding, the fetch, the engine or the parsing raises, the
\* handler still returns an OCRResult, with success = false, no text, no
\* lines, no details, confidence 0 and a non-empty error string; and every
\* OCRResult with success = true has error = null.
C3_FailureIsReported ==
    \A r \in Requests :
        (req[r].pc = "done" /\ req[r].endpoint \in {"/extract", "/extract-url"}) =>
            LET resp == req[r].response[1]
            IN  /\ req[r].caught # None =>
                       /\ resp.success = FALSE
                       /\ resp.extracted_text = <<>>
                       /\ resp.lines = <<>>
                       /\ resp.details = <<>>
                       /\ resp.confidence = 0
                       /\ resp.error # None
                       /\ resp.error[1] # ""
                /\ resp.success = TRUE => resp.error = None

\* what decides a response: the endpoint, what was sent, what was fetched
\* and what the engine returned for it
Given(r) == <<req[r].endpoint, req[r].input, req[r].fetched, req[r].prediction>>

\* C8: no handler step modifies the shared correction table or the shared
\* engine handle, and two requests with the same input and the same engine
\* output have the same response, whatever ran before or between them.
C8_Stateless ==
    /\ corrections = TAMIL_CORRECTIONS
    /\ ocr = OcrHandle
    /\ \A r1, r2 \in Requests :
           (req[r1].pc = "done" /\ req[r2].pc = "done" /\ Given(r1) = Given(r2))
               => req[r1].response = req[r2].response

\* C8 witness: two /extract requests for the same image overlapped, the
\* engine read 'தம்ழ்நாடு' for both, and both have their response.
C8_Witness ==
    /\ req[1].pc = "done" /\ req[2].pc = "done"
    /\ req[1].endpoint = "/extract" /\ req[2].endpoint = "/extract"
    /\ Given(1) = Given(2)
    /\ req[1].response[1].success
    /\ req[1].response[1].lines
           = << <<2980, 2990, 3007, 2996, 3021, 2984, 3006, 2975, 3009>> >>
    /\ req[1].response = req[2].response

====
